---- MODULE Spec2Model ----
(***************************************************************************)
(* Deal lifecycle of the escrow bot (src/main.py): the deals table, the    *)
(* command / button handlers that move a deal between statuses, and the    *)
(* detached deposit-verification tasks.                                    *)
(*                                                                         *)
(* Money is counted in thousandths of a currency unit, so 100.00 is 100000 *)
(* and 1.234 is 1234; round(x, 2) of the source is Round2 below.           *)
(*                                                                         *)
(* Handlers are dispatched one at a time by the bot's event loop and none  *)
(* of them awaits between its get_deal and its last UPDATE, so each        *)
(* handler is one atomic action.  In simulate_deposit_logic the task is    *)
(* created after an awaited reply; creating a task only adds a sleeping    *)
(* task, so the step commutes with whatever ran during that await and is   *)
(* folded into the handler's action.  A verification task sleeps, then     *)
(* draws its outcome, writes and notifies without awaiting: one action.    *)
(***************************************************************************)
EXTENDS Integers, Sequences, FiniteSets, Bags, TLC

\* ---------------------------------------------------------------- bounds
NumSample == 1      \* rows inserted by add_sample_deals (256 in the source)
MaxId     == 2      \* ids the AUTOINCREMENT counter may hand out
HalfLen   == 2      \* words in one half of a seed phrase (12 in the source)
MaxDraw   == 119    \* outcomes of random.sample numbered 0..MaxDraw; with
                    \* 5 words and 4 positions these are all 5*4*3*2

\* ------------------------------------------------------------- constants
\* Telegram user ids, written as strings: they are only compared, and the
\* administrator's id does not fit TLC's 32-bit integers.
ADMIN_ID        == "6127489137"
OTHER_ID        == "100000000"
THIRD_ID        == "200000000"
\* buyer_id / seller_id 0: the party is known by its @handle only
NoId            == "0"
SampleAmountLo  == 50000000     \* randint(50000, 430000), in thousandths

ADMIN_IDS == {ADMIN_ID}
Users     == {ADMIN_ID, OTHER_ID}
\* senders of /seed: THIRD_ID is a party of no sample deal
Callers   == {ADMIN_ID, THIRD_ID}
AllCallers == {ADMIN_ID, OTHER_ID, THIRD_ID}

\* from_user.username of a sender; NoUsername is a sender without one
NoUsername == ""
username(uid) ==
    CASE uid = ADMIN_ID -> "inuka"
      [] uid = OTHER_ID -> NoUsername
      [] uid = THIRD_ID -> "carol"

DealStatus == {"NEW", "PENDING_DEPOSIT", "FUNDED", "DELIVERED",
               "RELEASED", "DISPUTED", "RESOLVED", "CANCELED"}

\* statuses random.choices picks from in add_sample_deals
SampleStatuses == {"NEW", "PENDING_DEPOSIT", "FUNDED", "DELIVERED",
                   "DISPUTED", "RESOLVED"}

Ids           == 1..MaxId
\* the id 0 is never assigned: AUTOINCREMENT starts at 1
NoSuchId      == 0
PhraseLen     == 2 * HalfLen
NumWords      == PhraseLen + 1
SampleAmounts == {SampleAmountLo}
\* texts sent as the amount of a new deal: 0 and 1.234
AmountInputs  == {0, 1234}
\* ... and, where only deals are created: -1, 0, 0.004, 1.234, 100
AllAmountInputs == {-1000, 0, 4, 1234, 100000}
Winners       == {"buyer", "seller", "nobody"}
\* texts sent as the buyer or the seller of a new deal
HandleTexts   == {"@carol", "@admin"}
RefTexts      == HandleTexts \cup {"me", "carol"}
\* (sender, buyer text, seller text) of the /newdeal conversations
NewDealRefs   == {<<ADMIN_ID, "me", "@carol">>}

VARIABLES deals,   \* the deals table: id -> row
          seq,     \* sqlite_sequence: the largest id ever assigned
          tasks,   \* sleeping schedule_deposit_verification tasks (a bag:
                   \* create_task does not look for a task already there)
          last     \* the last handler that ran and the message it sent

vars == <<deals, seq, tasks, last>>

\* ------------------------------------------------------- pure functions

\* round(x, 2) on a non-negative value given in thousandths.  A tie is
\* decided half-to-even when x is an exact binary fraction (a multiple of
\* 0.125); other ties depend on the double nearest to x and are not inputs
\* of this model.
Round2(m) ==
    LET r == m % 10 IN
    CASE r < 5 -> m - r
      [] r > 5 -> m - r + 10
      [] r = 5 /\ m % 125 = 0 ->
            IF ((m - 5) \div 10) % 2 = 0 THEN m - 5 ELSE m + 5

\* the dictionary of generate_seed_phrase, a word being its position
words == [i \in 1..NumWords |-> i]

\* random.sample(population, PhraseLen) on a short population: position i
\* takes pool[j] for j = randbelow(n - i) and moves the last live element
\* of the pool into the hole.  r holds the randbelow results still to come,
\* as the digits of a mixed-radix number.
RECURSIVE random_sample(_, _, _)
random_sample(pool, i, r) ==
    IF i = PhraseLen THEN <<>>
    ELSE LET m == Len(pool) - i
             j == r % m
         IN <<pool[j + 1]>> \o
            random_sample([pool EXCEPT ![j + 1] = pool[m]], i + 1, r \div m)

\* generate_seed_phrase with replacement: every word is drawn from the whole
\* dictionary
generate_seed_phrase_choices(k) ==
    [i \in 1..PhraseLen |-> words[(k % NumWords) + 1]]

\* " ".join(random.sample(words, 24)); k numbers the outcome of the draw.
\* A phrase is kept as the sequence of its words: no word holds a blank, so
\* join and split() are inverse to each other.
generate_seed_phrase(k) == random_sample(words, 0, k)

\* split_seed_phrase whose second slice starts one word early
split_seed_phrase_overlap(p) ==
    <<SubSeq(p, 1, HalfLen), SubSeq(p, HalfLen, Len(p))>>

split_seed_phrase(p) ==
    <<SubSeq(p, 1, HalfLen), SubSeq(p, HalfLen + 1, Len(p))>>

\* A text is the sequence of its characters; "sharp-s" stands for the one
\* character U+00DF, whose upper case in Python is the two characters "SS".
RECURSIVE lstrip(_)
lstrip(s) == IF s # <<>> /\ Head(s) = " " THEN lstrip(Tail(s)) ELSE s

RECURSIVE rstrip(_)
rstrip(s) == IF s # <<>> /\ s[Len(s)] = " "
             THEN rstrip(SubSeq(s, 1, Len(s) - 1)) ELSE s

strip(s) == rstrip(lstrip(s))

upper_char(c) ==
    CASE c = "a" -> <<"A">> [] c = "b" -> <<"B">> [] c = "d" -> <<"D">>
      [] c = "s" -> <<"S">> [] c = "t" -> <<"T">> [] c = "u" -> <<"U">>
      [] c = "sharp-s" -> <<"S", "S">>
      [] OTHER -> <<c>>

RECURSIVE upper(_)
upper(s) == IF s = <<>> THEN <<>> ELSE upper_char(Head(s)) \o upper(Tail(s))

\* the currency add_sample_deals gives every row, and two of its
\* exploit_descriptions: the shortest one that a row with the administrator
\* as buyer gets (i = 44) and the shortest one of a row with the
\* administrator as seller (i = 65)
USD == <<"U", "S", "D">>

exploit_descriptions ==
    <<<<"R", "e", "d", "i", "s", " ", "R", "C", "E">>,
      <<"S", "i", "g", "n", "a", "l", " ", "R", "C", "E">>>>

\* a currency and a description as the conversation hands them to
\* insert_deal
Laptop == <<"l", "a", "p", "t", "o", "p">>

\* dt.datetime.utcnow().isoformat() at an insertion
Times == {"2025-01-01T00:00:00"}

\* text.strip().startswith("@") holds for the handle texts; a text that is
\* neither "me" nor a handle falls back to the sender.
_parse_user_ref(text, fallback_id, fallback_user) ==
    IF text = "me" THEN <<fallback_id, fallback_user>>
    ELSE IF text \in HandleTexts
    THEN IF text \in {"@admin", "@inuka", "@inukas"}
         THEN <<ADMIN_ID, "admin">>
         ELSE <<NoId, text>>
    ELSE <<fallback_id, fallback_user>>

\* the outcomes of random.sample that the handlers are explored with
Draws == {1, 2}

\* the outcomes of random.sample that issuance on its own is explored with
AllDraws == 0..MaxDraw

\* ------------------------------------------------------------ the store

\* a handler that read no further argument / showed no seed phrase half
NoArg == "-"
NoOut == <<>>

\* update_deal_status that also stamps the row with the time of the write
update_deal_status_stamped(ds, id, st) ==
    IF id \in DOMAIN ds
    THEN [ds EXCEPT ![id].status = st, ![id].created_at = "later"]
    ELSE ds

update_deal_status(ds, id, st) ==
    IF id \in DOMAIN ds THEN [ds EXCEPT ![id].status = st] ELSE ds

\* update_deal_balance that stores the value as given, without round(.., 2)
update_deal_balance_unrounded(ds, id, b) ==
    IF id \in DOMAIN ds THEN [ds EXCEPT ![id].escrow_balance = b] ELSE ds

update_deal_balance(ds, id, b) ==
    IF id \in DOMAIN ds THEN [ds EXCEPT ![id].escrow_balance = Round2(b)]
    ELSE ds

update_deal_seed_phrases(ds, id, h1, h2) ==
    IF id \in DOMAIN ds
    THEN [ds EXCEPT ![id].seed_phrase = h1, ![id].seller_seed_phrase = h2]
    ELSE ds

safe_get_seed_phrases(ds, id) ==
    IF id \in DOMAIN ds
    THEN <<ds[id].seed_phrase, ds[id].seller_seed_phrase>>
    ELSE <<NoOut, NoOut>>

\* ensure_seed_phrases_exist that draws a new phrase on every call
ensure_seed_phrases_exist_redraw(ds, id, k) ==
    LET h == split_seed_phrase(generate_seed_phrase(k)) IN
    [ds |-> update_deal_seed_phrases(ds, id, h[1], h[2]), halves |-> h]

\* The table ensure_seed_phrases_exist leaves and the halves it returns; k
\* is the draw of generate_seed_phrase, used when a half is missing.
ensure_seed_phrases_exist(ds, id, k) ==
    LET stored == safe_get_seed_phrases(ds, id) IN
    IF stored[1] = NoOut \/ stored[2] = NoOut
    THEN LET h == split_seed_phrase(generate_seed_phrase(k)) IN
         [ds |-> update_deal_seed_phrases(ds, id, h[1], h[2]), halves |-> h]
    ELSE [ds |-> ds, halves |-> stored]

\* get_deal returns None when there is no row
None == [status |-> "NONE"]

get_deal(ds, id) == IF id \in DOMAIN ds THEN ds[id] ELSE None

\* What a handler leaves behind for its caller: the operation, the deal id
\* and the user it was invoked with, the row as it was when the handler
\* started, and the kind of message it answered with; arg is the further
\* argument the handler read, out the seed phrase half its message shows.
Sent(op, id, uid, d, reply) ==
    [op |-> op, id |-> id, uid |-> uid, d |-> d, reply |-> reply,
     arg |-> NoArg, out |-> NoOut]

\* handlers that never look at the sender
NoUser == "-"

\* One row as add_sample_deals builds it.  random.seed(42) fixes the phrase
\* of every sample row; st and amt range over what the 256 rows hold.
SampleRow(st, amt, k, i, now) ==
    LET h == split_seed_phrase(generate_seed_phrase(k)) IN
    [buyer_id |-> IF i % 2 = 1 THEN ADMIN_ID ELSE OTHER_ID,
     buyer_username |-> IF i % 2 = 1 THEN "admin"
                        ELSE "buyer" \o ToString(i),
     seller_id |-> IF i % 2 = 1 THEN OTHER_ID ELSE ADMIN_ID,
     seller_username |-> IF i % 2 = 1 THEN "seller" \o ToString(i)
                         ELSE "admin",
     amount |-> amt,
     currency |-> USD,
     description |-> exploit_descriptions[
                        ((i - 1) % Len(exploit_descriptions)) + 1],
     status |-> st,
     escrow_balance |-> IF st = "NEW" THEN 0
                        ELSE IF st = "RELEASED" \/ st = "RESOLVED" THEN 0
                        ELSE amt,
     seed_phrase |-> h[1],
     seller_seed_phrase |-> h[2],
     created_at |-> now]

SampleRows(i) ==
    {SampleRow(st, amt, ((i - 1) % Cardinality(Draws)) + 1, i, now) :
        st \in SampleStatuses, amt \in SampleAmounts, now \in Times}

\* the table add_sample_deals leaves when the counter stood at n
SampleTables(n) ==
    {t \in [(n + 1)..(n + NumSample) -> UNION {SampleRows(i) : i \in 1..NumSample}] :
        \A id \in DOMAIN t : t[id] \in SampleRows(id - n)}

\* ---------------------------------------------------------------- Init
\* build_app on a fresh database: init_db creates the table and
\* add_sample_deals fills it.
Init ==
    /\ deals \in SampleTables(0)
    /\ seq = NumSample
    /\ tasks = EmptyBag
    /\ last = Sent("init_db", NoSuchId, NoUser, None, "ok")

\* -------------------------------------------------------------- actions

\* init_db on a table whose id is a plain INTEGER PRIMARY KEY: after the
\* DELETE the ids start again at 1
init_db_rowid ==
    /\ deals' \in SampleTables(0)
    /\ seq' = NumSample
    /\ tasks' = EmptyBag
    /\ last' = Sent("init_db", NoSuchId, NoUser, None, "ok")

\* Process start on an existing database: add_sample_deals deletes every
\* row and inserts the samples; AUTOINCREMENT keeps counting from seq.  The
\* tasks of the previous process are gone with it.
init_db ==
    /\ seq + NumSample <= MaxId
    /\ deals' \in SampleTables(seq)
    /\ seq' = seq + NumSample
    /\ tasks' = EmptyBag
    /\ last' = Sent("init_db", NoSuchId, NoUser, None, "ok")

\* insert_deal that returns without issuing the seed phrase
insert_deal_no_seed(sender, btxt, stxt, amount, currency, description, k) ==
    IF amount <= 0
    THEN /\ last' = Sent("newdeal", NoSuchId, NoUser, None, "invalid")
         /\ UNCHANGED <<deals, seq, tasks>>
    ELSE /\ seq < MaxId
         /\ \E now \in Times :
            LET id  == seq + 1
                b   == _parse_user_ref(btxt, sender, username(sender))
                sl  == _parse_user_ref(stxt, sender, username(sender))
                row == [buyer_id |-> b[1], buyer_username |-> b[2],
                        seller_id |-> sl[1], seller_username |-> sl[2],
                        amount |-> amount, currency |-> upper(currency),
                        description |-> description,
                        status |-> "NEW", escrow_balance |-> 0,
                        seed_phrase |-> NoOut, seller_seed_phrase |-> NoOut,
                        created_at |-> now]
            IN /\ deals' = [i \in DOMAIN deals \cup {id} |->
                               IF i = id THEN row ELSE deals[i]]
               /\ seq' = id
               /\ last' = Sent("newdeal", id, NoUser, None, "ok")
         /\ UNCHANGED tasks

\* /newdeal conversation: newdeal_buyer and newdeal_seller parse the two
\* parties, newdeal_amount validates the amount, and newdeal_description
\* ends it with insert_deal.
insert_deal(sender, btxt, stxt, amount, currency, description, k) ==
    IF amount <= 0
    THEN /\ last' = Sent("newdeal", NoSuchId, NoUser, None, "invalid")
         /\ UNCHANGED <<deals, seq, tasks>>
    ELSE /\ seq < MaxId
         /\ \E now \in Times :
            LET id  == seq + 1
                b   == _parse_user_ref(btxt, sender, username(sender))
                sl  == _parse_user_ref(stxt, sender, username(sender))
                h   == split_seed_phrase(generate_seed_phrase(k))
                row == [buyer_id |-> b[1], buyer_username |-> b[2],
                        seller_id |-> sl[1], seller_username |-> sl[2],
                        amount |-> amount, currency |-> upper(currency),
                        description |-> description,
                        status |-> "NEW", escrow_balance |-> 0,
                        seed_phrase |-> NoOut, seller_seed_phrase |-> NoOut,
                        created_at |-> now]
                ins == [i \in DOMAIN deals \cup {id} |->
                           IF i = id THEN row ELSE deals[i]]
            IN /\ deals' = update_deal_seed_phrases(ins, id, h[1], h[2])
               /\ seq' = id
               /\ last' = Sent("newdeal", id, NoUser, None, "ok")
         /\ UNCHANGED tasks

\* simulate_deposit_logic that issues the phrase before it tests the status
simulate_deposit_logic_issues_first(id, k) ==
    LET d  == get_deal(deals, id)
        h  == split_seed_phrase(generate_seed_phrase(k))
        d1 == update_deal_seed_phrases(deals, id, h[1], h[2])
    IN
    IF d = None
    THEN /\ last' = Sent("deposit", id, NoUser, d, "not_found")
         /\ UNCHANGED <<deals, seq, tasks>>
    ELSE IF d.status # "NEW"
    THEN /\ last' = Sent("deposit", id, NoUser, d, "illegal")
         /\ deals' = d1
         /\ UNCHANGED <<seq, tasks>>
    ELSE /\ deals' = update_deal_status(d1, id, "PENDING_DEPOSIT")
         /\ tasks' = tasks (+)
               SetToBag({[deal_id |-> id, expected_amount |-> d.amount]})
         /\ last' = [Sent("deposit", id, NoUser, d, "ok")
                        EXCEPT !.out = h[2]]
         /\ UNCHANGED seq

\* simulate_deposit_logic that hands the buyer's half to
\* ask_seller_btc_address
simulate_deposit_logic_buyer_half(id, k) ==
    LET d == get_deal(deals, id) IN
    IF d = None
    THEN /\ last' = Sent("deposit", id, NoUser, d, "not_found")
         /\ UNCHANGED <<deals, seq, tasks>>
    ELSE IF d.status # "NEW"
    THEN /\ last' = Sent("deposit", id, NoUser, d, "illegal")
         /\ UNCHANGED <<deals, seq, tasks>>
    ELSE LET h  == split_seed_phrase(generate_seed_phrase(k))
             d1 == update_deal_seed_phrases(deals, id, h[1], h[2])
         IN /\ deals' = update_deal_status(d1, id, "PENDING_DEPOSIT")
            /\ tasks' = tasks (+)
                  SetToBag({[deal_id |-> id, expected_amount |-> d.amount]})
            /\ last' = [Sent("deposit", id, NoUser, d, "ok")
                           EXCEPT !.out = h[1]]
            /\ UNCHANGED seq

\* simulate_deposit_logic that takes a deal still in PENDING_DEPOSIT again
simulate_deposit_logic_retry(id, k) ==
    LET d == get_deal(deals, id) IN
    IF d = None
    THEN /\ last' = Sent("deposit", id, NoUser, d, "not_found")
         /\ UNCHANGED <<deals, seq, tasks>>
    ELSE IF d.status \notin {"NEW", "PENDING_DEPOSIT"}
    THEN /\ last' = Sent("deposit", id, NoUser, d, "illegal")
         /\ UNCHANGED <<deals, seq, tasks>>
    ELSE LET h  == split_seed_phrase(generate_seed_phrase(k))
             d1 == update_deal_seed_phrases(deals, id, h[1], h[2])
         IN /\ deals' = update_deal_status(d1, id, "PENDING_DEPOSIT")
            /\ tasks' = tasks (+)
                  SetToBag({[deal_id |-> id, expected_amount |-> d.amount]})
            /\ last' = Sent("deposit", id, NoUser, d, "ok")
            /\ UNCHANGED seq

\* simulate_deposit_logic that returns without asyncio.create_task
simulate_deposit_logic_unscheduled(id, k) ==
    LET d == get_deal(deals, id) IN
    IF d = None
    THEN /\ last' = Sent("deposit", id, NoUser, d, "not_found")
         /\ UNCHANGED <<deals, seq, tasks>>
    ELSE IF d.status # "NEW"
    THEN /\ last' = Sent("deposit", id, NoUser, d, "illegal")
         /\ UNCHANGED <<deals, seq, tasks>>
    ELSE LET h  == split_seed_phrase(generate_seed_phrase(k))
             d1 == update_deal_seed_phrases(deals, id, h[1], h[2])
         IN /\ deals' = update_deal_status(d1, id, "PENDING_DEPOSIT")
            /\ last' = Sent("deposit", id, NoUser, d, "ok")
            /\ UNCHANGED <<seq, tasks>>

\* simulate_deposit_logic whose status check also lets PENDING_DEPOSIT pass
simulate_deposit_logic_pending(id, k) ==
    LET d == get_deal(deals, id) IN
    IF d = None
    THEN /\ last' = Sent("deposit", id, NoUser, d, "not_found")
         /\ UNCHANGED <<deals, seq, tasks>>
    ELSE IF d.status \notin {"NEW", "PENDING_DEPOSIT"}
    THEN /\ last' = Sent("deposit", id, NoUser, d, "illegal")
         /\ UNCHANGED <<deals, seq, tasks>>
    ELSE LET h  == split_seed_phrase(generate_seed_phrase(k))
             d1 == update_deal_seed_phrases(deals, id, h[1], h[2])
         IN /\ deals' = update_deal_status(d1, id, "PENDING_DEPOSIT")
            /\ tasks' = tasks (+)
                  SetToBag({[deal_id |-> id, expected_amount |-> d.amount]})
            /\ last' = Sent("deposit", id, NoUser, d, "ok")
            /\ UNCHANGED seq

simulate_deposit_logic(id, k) ==
    LET d == get_deal(deals, id) IN
    IF d = None
    THEN /\ last' = Sent("deposit", id, NoUser, d, "not_found")
         /\ UNCHANGED <<deals, seq, tasks>>
    ELSE IF d.status # "NEW"
    THEN /\ last' = Sent("deposit", id, NoUser, d, "illegal")
         /\ UNCHANGED <<deals, seq, tasks>>
    ELSE LET h  == split_seed_phrase(generate_seed_phrase(k))
             d1 == update_deal_seed_phrases(deals, id, h[1], h[2])
         IN /\ deals' = update_deal_status(d1, id, "PENDING_DEPOSIT")
            /\ tasks' = tasks (+)
                  SetToBag({[deal_id |-> id, expected_amount |-> d.amount]})
            /\ last' = [Sent("deposit", id, NoUser, d, "ok")
                           EXCEPT !.out = h[2]]
            /\ UNCHANGED seq

\* mark_delivered that takes a deal whose deposit is still awaited
mark_delivered_unfunded(id) ==
    LET d == get_deal(deals, id) IN
    IF d = None
    THEN /\ last' = Sent("delivered", id, NoUser, d, "not_found")
         /\ UNCHANGED <<deals, seq, tasks>>
    ELSE IF d.status \notin {"PENDING_DEPOSIT", "FUNDED", "DISPUTED"}
    THEN /\ last' = Sent("delivered", id, NoUser, d, "illegal")
         /\ UNCHANGED <<deals, seq, tasks>>
    ELSE /\ deals' = update_deal_status(deals, id, "DELIVERED")
         /\ last' = Sent("delivered", id, NoUser, d, "ok")
         /\ UNCHANGED <<seq, tasks>>

\* mark_delivered that also pays the escrow out
mark_delivered_zeroes(id) ==
    LET d == get_deal(deals, id) IN
    IF d = None
    THEN /\ last' = Sent("delivered", id, NoUser, d, "not_found")
         /\ UNCHANGED <<deals, seq, tasks>>
    ELSE IF d.status \notin {"FUNDED", "DISPUTED"}
    THEN /\ last' = Sent("delivered", id, NoUser, d, "illegal")
         /\ UNCHANGED <<deals, seq, tasks>>
    ELSE /\ deals' = update_deal_balance(
                        update_deal_status(deals, id, "DELIVERED"), id, 0)
         /\ last' = Sent("delivered", id, NoUser, d, "ok")
         /\ UNCHANGED <<seq, tasks>>

\* mark_delivered whose status check also lets DELIVERED pass
mark_delivered_again(id) ==
    LET d == get_deal(deals, id) IN
    IF d = None
    THEN /\ last' = Sent("delivered", id, NoUser, d, "not_found")
         /\ UNCHANGED <<deals, seq, tasks>>
    ELSE IF d.status \notin {"FUNDED", "DISPUTED", "DELIVERED"}
    THEN /\ last' = Sent("delivered", id, NoUser, d, "illegal")
         /\ UNCHANGED <<deals, seq, tasks>>
    ELSE /\ deals' = update_deal_status(deals, id, "DELIVERED")
         /\ last' = Sent("delivered", id, NoUser, d, "ok")
         /\ UNCHANGED <<seq, tasks>>

mark_delivered(id) ==
    LET d == get_deal(deals, id) IN
    IF d = None
    THEN /\ last' = Sent("delivered", id, NoUser, d, "not_found")
         /\ UNCHANGED <<deals, seq, tasks>>
    ELSE IF d.status \notin {"FUNDED", "DISPUTED"}
    THEN /\ last' = Sent("delivered", id, NoUser, d, "illegal")
         /\ UNCHANGED <<deals, seq, tasks>>
    ELSE /\ deals' = update_deal_status(deals, id, "DELIVERED")
         /\ last' = Sent("delivered", id, NoUser, d, "ok")
         /\ UNCHANGED <<seq, tasks>>

\* release_to_seller that forgets update_deal_balance(d.id, 0.0)
release_to_seller_keeps_balance(id) ==
    LET d == get_deal(deals, id) IN
    IF d = None
    THEN /\ last' = Sent("release", id, NoUser, d, "not_found")
         /\ UNCHANGED <<deals, seq, tasks>>
    ELSE IF d.status # "DELIVERED"
    THEN /\ last' = Sent("release", id, NoUser, d, "illegal")
         /\ UNCHANGED <<deals, seq, tasks>>
    ELSE /\ deals' = update_deal_status(deals, id, "RELEASED")
         /\ last' = Sent("release", id, NoUser, d, "ok")
         /\ UNCHANGED <<seq, tasks>>

\* release_to_seller whose status check also lets FUNDED pass
release_to_seller_from_funded(id) ==
    LET d == get_deal(deals, id) IN
    IF d = None
    THEN /\ last' = Sent("release", id, NoUser, d, "not_found")
         /\ UNCHANGED <<deals, seq, tasks>>
    ELSE IF d.status \notin {"DELIVERED", "FUNDED"}
    THEN /\ last' = Sent("release", id, NoUser, d, "illegal")
         /\ UNCHANGED <<deals, seq, tasks>>
    ELSE /\ deals' = update_deal_balance(
                        update_deal_status(deals, id, "RELEASED"), id, 0)
         /\ last' = Sent("release", id, NoUser, d, "ok")
         /\ UNCHANGED <<seq, tasks>>

release_to_seller(id) ==
    LET d == get_deal(deals, id) IN
    IF d = None
    THEN /\ last' = Sent("release", id, NoUser, d, "not_found")
         /\ UNCHANGED <<deals, seq, tasks>>
    ELSE IF d.status # "DELIVERED"
    THEN /\ last' = Sent("release", id, NoUser, d, "illegal")
         /\ UNCHANGED <<deals, seq, tasks>>
    ELSE /\ deals' = update_deal_balance(
                        update_deal_status(deals, id, "RELEASED"), id, 0)
         /\ last' = Sent("release", id, NoUser, d, "ok")
         /\ UNCHANGED <<seq, tasks>>

\* open_dispute that a delivered deal can no longer take
open_dispute_funded_only(id) ==
    LET d == get_deal(deals, id) IN
    IF d = None
    THEN /\ last' = Sent("dispute", id, NoUser, d, "not_found")
         /\ UNCHANGED <<deals, seq, tasks>>
    ELSE IF d.status # "FUNDED"
    THEN /\ last' = Sent("dispute", id, NoUser, d, "illegal")
         /\ UNCHANGED <<deals, seq, tasks>>
    ELSE /\ deals' = update_deal_status(deals, id, "DISPUTED")
         /\ last' = Sent("dispute", id, NoUser, d, "ok")
         /\ UNCHANGED <<seq, tasks>>

\* open_dispute that also refunds: it zeroes the balance with the status
open_dispute_zeroes(id) ==
    LET d == get_deal(deals, id) IN
    IF d = None
    THEN /\ last' = Sent("dispute", id, NoUser, d, "not_found")
         /\ UNCHANGED <<deals, seq, tasks>>
    ELSE IF d.status \notin {"FUNDED", "DELIVERED"}
    THEN /\ last' = Sent("dispute", id, NoUser, d, "illegal")
         /\ UNCHANGED <<deals, seq, tasks>>
    ELSE /\ deals' = update_deal_balance(
                        update_deal_status(deals, id, "DISPUTED"), id, 0)
         /\ last' = Sent("dispute", id, NoUser, d, "ok")
         /\ UNCHANGED <<seq, tasks>>

open_dispute(id) ==
    LET d == get_deal(deals, id) IN
    IF d = None
    THEN /\ last' = Sent("dispute", id, NoUser, d, "not_found")
         /\ UNCHANGED <<deals, seq, tasks>>
    ELSE IF d.status \notin {"FUNDED", "DELIVERED"}
    THEN /\ last' = Sent("dispute", id, NoUser, d, "illegal")
         /\ UNCHANGED <<deals, seq, tasks>>
    ELSE /\ deals' = update_deal_status(deals, id, "DISPUTED")
         /\ last' = Sent("dispute", id, NoUser, d, "ok")
         /\ UNCHANGED <<seq, tasks>>

\* resolve_cmd that pays out before it tests the winner
resolve_cmd_pays_first(uid, id, winner) ==
    LET d == get_deal(deals, id) IN
    IF uid \notin ADMIN_IDS
    THEN /\ last' = Sent("resolve", id, uid, d, "admin_only")
         /\ UNCHANGED <<deals, seq, tasks>>
    ELSE IF d = None
    THEN /\ last' = Sent("resolve", id, uid, d, "not_found")
         /\ UNCHANGED <<deals, seq, tasks>>
    ELSE IF d.status \notin {"DISPUTED", "FUNDED", "DELIVERED"}
    THEN /\ last' = Sent("resolve", id, uid, d, "illegal")
         /\ UNCHANGED <<deals, seq, tasks>>
    ELSE IF winner \notin {"buyer", "seller"}
    THEN /\ deals' = update_deal_balance(deals, id, 0)
         /\ last' = [Sent("resolve", id, uid, d, "bad_winner")
                        EXCEPT !.arg = winner]
         /\ UNCHANGED <<seq, tasks>>
    ELSE /\ deals' = update_deal_status(
                        update_deal_balance(deals, id, 0), id, "RESOLVED")
         /\ last' = [Sent("resolve", id, uid, d, "ok") EXCEPT !.arg = winner]
         /\ UNCHANGED <<seq, tasks>>

\* resolve_cmd that returns after update_deal_balance, before the status
resolve_cmd_balance_only(uid, id, winner) ==
    LET d == get_deal(deals, id) IN
    IF uid \notin ADMIN_IDS
    THEN /\ last' = Sent("resolve", id, uid, d, "admin_only")
         /\ UNCHANGED <<deals, seq, tasks>>
    ELSE IF d = None
    THEN /\ last' = Sent("resolve", id, uid, d, "not_found")
         /\ UNCHANGED <<deals, seq, tasks>>
    ELSE IF d.status \notin {"DISPUTED", "FUNDED", "DELIVERED"}
    THEN /\ last' = Sent("resolve", id, uid, d, "illegal")
         /\ UNCHANGED <<deals, seq, tasks>>
    ELSE IF winner \notin {"buyer", "seller"}
    THEN /\ last' = [Sent("resolve", id, uid, d, "bad_winner")
                        EXCEPT !.arg = winner]
         /\ UNCHANGED <<deals, seq, tasks>>
    ELSE /\ deals' = update_deal_balance(deals, id, 0)
         /\ last' = [Sent("resolve", id, uid, d, "ok") EXCEPT !.arg = winner]
         /\ UNCHANGED <<seq, tasks>>

\* resolve_cmd that settles only in favour of the buyer: for the seller it
\* writes RESOLVED and leaves the balance in escrow
resolve_cmd_buyer_only(uid, id, winner) ==
    LET d == get_deal(deals, id) IN
    IF uid \notin ADMIN_IDS
    THEN /\ last' = Sent("resolve", id, uid, d, "admin_only")
         /\ UNCHANGED <<deals, seq, tasks>>
    ELSE IF d = None
    THEN /\ last' = Sent("resolve", id, uid, d, "not_found")
         /\ UNCHANGED <<deals, seq, tasks>>
    ELSE IF d.status \notin {"DISPUTED", "FUNDED", "DELIVERED"}
    THEN /\ last' = Sent("resolve", id, uid, d, "illegal")
         /\ UNCHANGED <<deals, seq, tasks>>
    ELSE IF winner \notin {"buyer", "seller"}
    THEN /\ last' = [Sent("resolve", id, uid, d, "bad_winner")
                        EXCEPT !.arg = winner]
         /\ UNCHANGED <<deals, seq, tasks>>
    ELSE /\ deals' = IF winner = "buyer"
                     THEN update_deal_status(
                             update_deal_balance(deals, id, 0), id, "RESOLVED")
                     ELSE update_deal_status(deals, id, "RESOLVED")
         /\ last' = [Sent("resolve", id, uid, d, "ok") EXCEPT !.arg = winner]
         /\ UNCHANGED <<seq, tasks>>

\* /resolve <deal_id> <winner>.  The winner is tested only once the sender,
\* the id and the status have passed, so that is where it is recorded.
resolve_cmd(uid, id, winner) ==
    LET d == get_deal(deals, id) IN
    IF uid \notin ADMIN_IDS
    THEN /\ last' = Sent("resolve", id, uid, d, "admin_only")
         /\ UNCHANGED <<deals, seq, tasks>>
    ELSE IF d = None
    THEN /\ last' = Sent("resolve", id, uid, d, "not_found")
         /\ UNCHANGED <<deals, seq, tasks>>
    ELSE IF d.status \notin {"DISPUTED", "FUNDED", "DELIVERED"}
    THEN /\ last' = Sent("resolve", id, uid, d, "illegal")
         /\ UNCHANGED <<deals, seq, tasks>>
    ELSE IF winner \notin {"buyer", "seller"}
    THEN /\ last' = [Sent("resolve", id, uid, d, "bad_winner")
                        EXCEPT !.arg = winner]
         /\ UNCHANGED <<deals, seq, tasks>>
    ELSE /\ deals' = update_deal_status(
                        update_deal_balance(deals, id, 0), id, "RESOLVED")
         /\ last' = [Sent("resolve", id, uid, d, "ok") EXCEPT !.arg = winner]
         /\ UNCHANGED <<seq, tasks>>

\* cancel_cmd that puts the deal back to NEW
cancel_cmd_reopens(uid, id) ==
    LET d == get_deal(deals, id) IN
    IF uid \notin ADMIN_IDS
    THEN /\ last' = Sent("cancel", id, uid, d, "admin_only")
         /\ UNCHANGED <<deals, seq, tasks>>
    ELSE IF d = None
    THEN /\ last' = Sent("cancel", id, uid, d, "not_found")
         /\ UNCHANGED <<deals, seq, tasks>>
    ELSE /\ deals' = update_deal_balance(
                        update_deal_status(deals, id, "NEW"), id, 0)
         /\ last' = Sent("cancel", id, uid, d, "ok")
         /\ UNCHANGED <<seq, tasks>>

\* cancel_cmd without its ADMIN_IDS check
cancel_cmd_anyone(uid, id) ==
    LET d == get_deal(deals, id) IN
    IF d = None
    THEN /\ last' = Sent("cancel", id, uid, d, "not_found")
         /\ UNCHANGED <<deals, seq, tasks>>
    ELSE /\ deals' = update_deal_balance(
                        update_deal_status(deals, id, "CANCELED"), id, 0)
         /\ last' = Sent("cancel", id, uid, d, "ok")
         /\ UNCHANGED <<seq, tasks>>

cancel_cmd(uid, id) ==
    LET d == get_deal(deals, id) IN
    IF uid \notin ADMIN_IDS
    THEN /\ last' = Sent("cancel", id, uid, d, "admin_only")
         /\ UNCHANGED <<deals, seq, tasks>>
    ELSE IF d = None
    THEN /\ last' = Sent("cancel", id, uid, d, "not_found")
         /\ UNCHANGED <<deals, seq, tasks>>
    ELSE /\ deals' = update_deal_balance(
                        update_deal_status(deals, id, "CANCELED"), id, 0)
         /\ last' = Sent("cancel", id, uid, d, "ok")
         /\ UNCHANGED <<seq, tasks>>

\* verify_btc_deposit that credits what is left of the expected amount
\* after a fee of 0.01
verify_btc_deposit_less_fee(ds, id, expected_amount, found) ==
    IF found
    THEN update_deal_balance(update_deal_status(ds, id, "FUNDED"),
                             id, expected_amount - 10)
    ELSE ds

\* verify_btc_deposit whose UPDATEs have no WHERE id=?: a deposit that is
\* found funds every row
verify_btc_deposit_every_row(ds, id, expected_amount, found) ==
    IF found
    THEN [i \in DOMAIN ds |->
            [ds[i] EXCEPT !.status = "FUNDED",
                          !.escrow_balance = Round2(expected_amount)]]
    ELSE ds

\* verify_btc_deposit that credits the expected amount although no deposit
\* was found
verify_btc_deposit_credits_unfound(ds, id, expected_amount, found) ==
    IF found
    THEN update_deal_balance(update_deal_status(ds, id, "FUNDED"),
                             id, expected_amount)
    ELSE update_deal_balance(ds, id, expected_amount)

\* The effect of verify_btc_deposit once its sleeps are over: found is the
\* outcome of random.random() < 0.9.
verify_btc_deposit(ds, id, expected_amount, found) ==
    IF found
    THEN update_deal_balance(update_deal_status(ds, id, "FUNDED"),
                             id, expected_amount)
    ELSE ds

\* A sleeping task wakes up: verify_btc_deposit, then the notification that
\* matches its result (none when get_deal finds no row).
\* The two notifications print their message unless the deal is gone; what
\* a call prints is the sequence of the messages it puts out.
notify_deposit_success(ds, id) ==
    IF get_deal(ds, id) = None THEN <<>> ELSE <<"success">>

\* notify_deposit_failed that prints nothing
notify_deposit_failed_silent(ds, id) == <<>>

notify_deposit_failed(ds, id) ==
    IF get_deal(ds, id) = None THEN <<>> ELSE <<"failed">>

schedule_deposit_verification(t, found) ==
    /\ BagIn(t, tasks)
    /\ tasks' = tasks (-) SetToBag({t})
    /\ deals' = verify_btc_deposit(deals, t.deal_id, t.expected_amount, found)
    /\ last' = [Sent("verify", t.deal_id, NoUser,
                     get_deal(deals, t.deal_id),
                     IF get_deal(deals', t.deal_id) = None THEN "none"
                     ELSE IF found THEN "success" ELSE "failed")
                  EXCEPT !.out = IF found
                                 THEN notify_deposit_success(deals', t.deal_id)
                                 ELSE notify_deposit_failed(deals', t.deal_id)]
    /\ UNCHANGED seq

\* d.buyer_id == uid or (username and d.buyer_username == f"@{username}")
is_buyer(d, uid) ==
    \/ d.buyer_id = uid
    \/ username(uid) # NoUsername /\ d.buyer_username = "@" \o username(uid)

is_seller(d, uid) ==
    \/ d.seller_id = uid
    \/ username(uid) # NoUsername /\ d.seller_username = "@" \o username(uid)

\* show_seed_phrase that looks at the parties before it looks for the row
show_seed_phrase_parties_first(uid, id, k) ==
    LET d == get_deal(deals, id) IN
    IF d = None \/ ~(is_buyer(d, uid) \/ is_seller(d, uid))
    THEN /\ last' = Sent("seed", id, uid, d, "not_involved")
         /\ UNCHANGED <<deals, seq, tasks>>
    ELSE LET r == ensure_seed_phrases_exist(deals, id, k) IN
         /\ deals' = r.ds
         /\ last' = [Sent("seed", id, uid, d, "ok")
                        EXCEPT !.out = IF is_buyer(d, uid) THEN r.halves[1]
                                       ELSE r.halves[2]]
         /\ UNCHANGED <<seq, tasks>>

\* show_seed_phrase that shows the seller's half to whoever is a party
show_seed_phrase_seller_half(uid, id, k) ==
    LET d == get_deal(deals, id) IN
    IF d = None
    THEN /\ last' = Sent("seed", id, uid, d, "not_found")
         /\ UNCHANGED <<deals, seq, tasks>>
    ELSE IF ~(is_buyer(d, uid) \/ is_seller(d, uid))
    THEN /\ last' = Sent("seed", id, uid, d, "not_involved")
         /\ UNCHANGED <<deals, seq, tasks>>
    ELSE LET r == ensure_seed_phrases_exist(deals, id, k) IN
         /\ deals' = r.ds
         /\ last' = [Sent("seed", id, uid, d, "ok")
                        EXCEPT !.out = r.halves[2]]
         /\ UNCHANGED <<seq, tasks>>

\* /seed <deal_id>: a party of the deal is shown its half of the phrase;
\* whoever is the buyer is shown the buyer's half.
show_seed_phrase(uid, id, k) ==
    LET d == get_deal(deals, id) IN
    IF d = None
    THEN /\ last' = Sent("seed", id, uid, d, "not_found")
         /\ UNCHANGED <<deals, seq, tasks>>
    ELSE IF ~(is_buyer(d, uid) \/ is_seller(d, uid))
    THEN /\ last' = Sent("seed", id, uid, d, "not_involved")
         /\ UNCHANGED <<deals, seq, tasks>>
    ELSE LET r == ensure_seed_phrases_exist(deals, id, k) IN
         /\ deals' = r.ds
         /\ last' = [Sent("seed", id, uid, d, "ok")
                        EXCEPT !.out = IF is_buyer(d, uid) THEN r.halves[1]
                                       ELSE r.halves[2]]
         /\ UNCHANGED <<seq, tasks>>

\* generate_seed_phrase is called, and random.sample consulted, only when a
\* half of the deal is missing: the draws that /seed <id> can see
SeedDraws(id) ==
    LET stored == safe_get_seed_phrases(deals, id) IN
    IF stored[1] = NoOut \/ stored[2] = NoOut THEN Draws ELSE {1}

\* simulate_deposit_logic calls generate_seed_phrase only for a NEW deal
DepositDraws(id) ==
    IF get_deal(deals, id).status = "NEW" THEN Draws ELSE {1}

\* resolve_cmd tests the winner only once the sender, the id and the status
\* have passed: the winners that /resolve <id> <winner> can tell apart
WinnerInputs(uid, id) ==
    IF uid \in ADMIN_IDS
          /\ get_deal(deals, id).status \in {"DISPUTED", "FUNDED", "DELIVERED"}
    THEN Winners ELSE {"buyer"}

\* deal ids a user sends: those of the rows, and one that has no row
IdInputs == DOMAIN deals \cup {NoSuchId}

Next ==
    \/ init_db
    \/ \E r \in NewDealRefs, a \in AmountInputs, k \in Draws :
          insert_deal(r[1], r[2], r[3], a, USD, Laptop, k)
    \/ \E id \in IdInputs :
          \E k \in DepositDraws(id) : simulate_deposit_logic(id, k)
    \/ \E id \in IdInputs : mark_delivered(id)
    \/ \E id \in IdInputs : release_to_seller(id)
    \/ \E id \in IdInputs : open_dispute(id)
    \/ \E uid \in Users, id \in IdInputs :
          \E w \in WinnerInputs(uid, id) : resolve_cmd(uid, id, w)
    \/ \E uid \in Users, id \in IdInputs : cancel_cmd(uid, id)
    \/ \E t \in BagToSet(tasks), found \in BOOLEAN :
          schedule_deposit_verification(t, found)
    \/ \E uid \in Callers, id \in IdInputs :
          \E k \in SeedDraws(id) : show_seed_phrase(uid, id, k)

Spec == Init /\ [][Next]_vars

\* One run of the process: the handlers and the tasks, without a restart.
\* The handlers are sent the ids of the rows, by the administrator where
\* the sender matters, and random.sample has a single outcome.
NextRun ==
    \/ \E r \in NewDealRefs, a \in AmountInputs :
          insert_deal(r[1], r[2], r[3], a, USD, Laptop, 1)
    \/ \E id \in DOMAIN deals : simulate_deposit_logic(id, 1)
    \/ \E id \in DOMAIN deals : mark_delivered(id)
    \/ \E id \in DOMAIN deals : release_to_seller(id)
    \/ \E id \in DOMAIN deals : open_dispute(id)
    \/ \E id \in DOMAIN deals : resolve_cmd(ADMIN_ID, id, "seller")
    \/ \E id \in DOMAIN deals : cancel_cmd(ADMIN_ID, id)
    \/ \E t \in BagToSet(tasks), found \in BOOLEAN :
          schedule_deposit_verification(t, found)

\* the task of deal id wakes up
Fires(id) ==
    \E t \in BagToSet(tasks), found \in BOOLEAN :
        t.deal_id = id /\ schedule_deposit_verification(t, found)

\* While the process runs, the event loop resumes every task whose sleep is
\* over: a task that is waiting is eventually run.
SpecRun ==
    /\ Init
    /\ [][NextRun]_vars
    /\ \A id \in Ids : WF_vars(Fires(id))

\* Issuance on its own: deals are created with every outcome of the draw.
\* the states of the /newdeal conversation a handler returns
AMOUNT      == "AMOUNT"
CURRENCY    == "CURRENCY"
DESCRIPTION == "DESCRIPTION"
END         == "END"

newdeal_amount(amount) == IF amount <= 0 THEN AMOUNT ELSE CURRENCY

\* newdeal_currency that measures the text as it was sent
newdeal_currency_raw(text) ==
    IF Len(text) < 3 \/ Len(text) > 6 THEN CURRENCY ELSE DESCRIPTION

newdeal_currency(text) ==
    LET currency == upper(strip(text)) IN
    IF Len(currency) < 3 \/ Len(currency) > 6 THEN CURRENCY ELSE DESCRIPTION

newdeal_description(text) ==
    LET desc == strip(text) IN
    IF Len(desc) < 5 THEN DESCRIPTION ELSE END

\* One /newdeal conversation of a sender: the amount, the currency and the
\* description are taken in turn; a handler that turns its text down
\* answers and returns its own state, so the conversation waits for the
\* same field again; the description that passes ends the conversation
\* with insert_deal.
newdeal(sender, btxt, stxt, amount, ctext, dtext, k) ==
    IF newdeal_amount(amount) = AMOUNT
    THEN /\ last' = [Sent("newdeal", NoSuchId, NoUser, None, "invalid")
                        EXCEPT !.arg = AMOUNT]
         /\ UNCHANGED <<deals, seq, tasks>>
    ELSE IF newdeal_currency(ctext) = CURRENCY
    THEN /\ last' = [Sent("newdeal", NoSuchId, NoUser, None, "invalid")
                        EXCEPT !.arg = CURRENCY]
         /\ UNCHANGED <<deals, seq, tasks>>
    ELSE IF newdeal_description(dtext) = DESCRIPTION
    THEN /\ last' = [Sent("newdeal", NoSuchId, NoUser, None, "invalid")
                        EXCEPT !.arg = DESCRIPTION]
         /\ UNCHANGED <<deals, seq, tasks>>
    ELSE insert_deal(sender, btxt, stxt, amount,
                     upper(strip(ctext)), strip(dtext), k)

CurrencyTexts ==
    {<<"u", "s", "d">>,
     <<"u", "s", "d", "t", "a", "b", "d">>,
     <<" ", "u", "s", " ">>,
     <<" ", "U", "S", "D", "T", "A", "B", " ">>,
     <<"a", "sharp-s">>}

InputAmounts == {-1000, 0, 4, 1234}

DescriptionTexts ==
    {<<" ", " ", "l", "a", "p", "t", " ">>,
     <<"l", "a", "p", "t", "o", "p">>}

\* /newdeal with every kind of amount, currency and description, on the
\* table of the first start, the administrator cancelling deals in between
NextInput ==
    \/ \E id \in DOMAIN deals : cancel_cmd(ADMIN_ID, id)
    \/ \E r \in NewDealRefs, a \in InputAmounts,
          c \in CurrencyTexts, t \in DescriptionTexts :
          newdeal(r[1], r[2], r[3], a, c, t, 1)

SpecInput == Init /\ [][NextInput]_vars

\* the scenario deal of 100.00 and a deal of 0.004, created by the
\* administrator and taken through every handler by the administrator
PathAmounts == {4, 100000}

NextPath ==
    \/ \E r \in NewDealRefs, a \in PathAmounts :
          insert_deal(r[1], r[2], r[3], a, USD, Laptop, 1)
    \/ \E id \in IdInputs : simulate_deposit_logic(id, 2)
    \/ \E id \in DOMAIN deals : mark_delivered(id)
    \/ \E id \in DOMAIN deals : release_to_seller(id)
    \/ \E id \in DOMAIN deals : open_dispute(id)
    \/ \E id \in DOMAIN deals, w \in {"buyer", "seller"} :
          resolve_cmd(ADMIN_ID, id, w)
    \/ \E uid \in Callers, id \in DOMAIN deals : cancel_cmd(uid, id)
    \/ \E t \in BagToSet(tasks), found \in BOOLEAN :
          schedule_deposit_verification(t, found)
    \/ \E uid \in Callers, id \in DOMAIN deals : show_seed_phrase(uid, id, 1)

SpecPath == Init /\ [][NextPath]_vars

\* on_button that lets only the seller mark delivered, only the buyer
\* release and only the two parties dispute
on_button_parties(uid, action, id, k) ==
    LET d == get_deal(deals, id) IN
    IF action = "deposit" THEN simulate_deposit_logic(id, k)
    ELSE IF d # None /\ action = "delivered" /\ ~is_seller(d, uid)
    THEN /\ last' = Sent("delivered", id, uid, d, "not_involved")
         /\ UNCHANGED <<deals, seq, tasks>>
    ELSE IF d # None /\ action = "release" /\ ~is_buyer(d, uid)
    THEN /\ last' = Sent("release", id, uid, d, "not_involved")
         /\ UNCHANGED <<deals, seq, tasks>>
    ELSE IF d # None /\ action = "dispute"
               /\ ~(is_buyer(d, uid) \/ is_seller(d, uid))
    THEN /\ last' = Sent("dispute", id, uid, d, "not_involved")
         /\ UNCHANGED <<deals, seq, tasks>>
    ELSE IF action = "delivered" THEN mark_delivered(id)
    ELSE IF action = "release" THEN release_to_seller(id)
    ELSE open_dispute(id)

\* A press of a button of the deal menu by the user uid: on_button splits
\* the callback data into the action and the deal id and calls the handler
\* of the action; it never reads who pressed.
on_button(uid, action, id, k) ==
    IF action = "deposit" THEN simulate_deposit_logic(id, k)
    ELSE IF action = "delivered" THEN mark_delivered(id)
    ELSE IF action = "release" THEN release_to_seller(id)
    ELSE open_dispute(id)

ButtonActions == {"deposit", "delivered", "release", "dispute"}

\* /release <id> and /dispute <id> sent by the user uid
_release_cmd_alias(uid, id) == release_to_seller(id)

_dispute_cmd_alias(uid, id) == open_dispute(id)

\* the users who press and send here: carol, the seller of the created
\* deals, and a user who is the seller of the first sample deal and no
\* party of a created deal; the administrator, who creates the deals as
\* their buyer, presses nothing
ButtonCallers == {THIRD_ID, OTHER_ID}

NextCallers ==
    \/ \E r \in NewDealRefs, a \in PathAmounts :
          insert_deal(r[1], r[2], r[3], a, USD, Laptop, 1)
    \/ \E uid \in ButtonCallers, action \in ButtonActions,
          id \in DOMAIN deals : on_button(uid, action, id, 1)
    \/ \E uid \in ButtonCallers, id \in DOMAIN deals :
          _release_cmd_alias(uid, id)
    \/ \E uid \in ButtonCallers, id \in DOMAIN deals :
          _dispute_cmd_alias(uid, id)
    \/ \E t \in BagToSet(tasks), found \in BOOLEAN :
          schedule_deposit_verification(t, found)

SpecCallers == Init /\ [][NextCallers]_vars

NextPhrase ==
    \E r \in NewDealRefs, a \in AmountInputs, k \in AllDraws :
        insert_deal(r[1], r[2], r[3], a, USD, Laptop, k)

SpecPhrase == Init /\ [][NextPhrase]_vars

\* The parties of a deal and /seed: deals are created by every sender with
\* every buyer and seller text, and every sender asks for its half.
NextParties ==
    \/ \E sender \in AllCallers, btxt \in RefTexts, stxt \in RefTexts,
          a \in AllAmountInputs, k \in Draws :
          insert_deal(sender, btxt, stxt, a, USD, Laptop, k)
    \/ \E uid \in AllCallers, id \in IdInputs :
          \E k \in SeedDraws(id) : show_seed_phrase(uid, id, k)

SpecParties == Init /\ [][NextParties]_vars

\* ------------------------------------------------------------------------
\* Properties
\* ------------------------------------------------------------------------

Terminal    == {"RELEASED", "RESOLVED", "CANCELED"}
NonTerminal == DealStatus \ Terminal
FundedStates == {"FUNDED", "DELIVERED", "DISPUTED"}

\* the row of the deal the last handler was about, as it is now
Now == get_deal(deals, last.id)

\* C1: once a deal's status is RELEASED, RESOLVED or CANCELED, no step (no
\* handler, no firing of a verification task) changes its status.
C1_TerminalAbsorbing ==
    [][\A id \in DOMAIN deals \cap DOMAIN deals' :
          deals[id].status \in Terminal
             => deals'[id].status = deals[id].status]_vars

\* C2: a verification task that fires for a deal that is not in
\* PENDING_DEPOSIT (or has no row) at that moment changes neither the
\* deal's status nor its escrow_balance, whatever the check's outcome.
C2_StaleVerificationNoOp ==
    (last.op = "verify" /\ last.d.status # "PENDING_DEPOSIT")
       => /\ Now.status = last.d.status
          /\ last.d # None => Now.escrow_balance = last.d.escrow_balance

\* C3: cancel by an administrator on an existing deal succeeds exactly when
\* the status is non-terminal, then leaving CANCELED with balance 0; on a
\* terminal deal it is rejected as illegal and the row is unchanged.
C3_CancelLegalSources ==
    (last.op = "cancel" /\ last.uid \in ADMIN_IDS /\ last.d # None)
       => IF last.d.status \in NonTerminal
          THEN /\ last.reply = "ok"
               /\ Now.status = "CANCELED"
               /\ Now.escrow_balance = 0
          ELSE /\ last.reply = "illegal"
               /\ Now.status = last.d.status
               /\ Now.escrow_balance = last.d.escrow_balance

\* C4: initiate_deposit on an existing deal succeeds iff its status is NEW;
\* on success the status is PENDING_DEPOSIT, otherwise it is rejected and
\* the status is what it was.
C4_DepositIffNew ==
    (last.op = "deposit" /\ last.d # None)
       => /\ last.reply = "ok" <=> last.d.status = "NEW"
          /\ last.reply = "ok" => Now.status = "PENDING_DEPOSIT"
          /\ last.reply # "ok" => /\ last.reply = "illegal"
                                  /\ Now.status = last.d.status

C4_Witness ==
    /\ last.op = "deposit" /\ last.reply = "ok"
    /\ last.d.status = "NEW" /\ Now.status = "PENDING_DEPOSIT"

\* C5 as stated: right after a successful verification moved a deal from
\* PENDING_DEPOSIT to FUNDED, its escrow_balance equals its amount exactly.
C5_BalanceEqualsAmount ==
    (last.op = "verify" /\ last.reply = "success"
        /\ last.d.status = "PENDING_DEPOSIT")
       => /\ Now.status = "FUNDED"
          /\ Now.escrow_balance = Now.amount

\* C5 as amended: right after a successful verification moved a deal from
\* PENDING_DEPOSIT to FUNDED, its escrow_balance equals its amount rounded
\* to two decimal places (the amount itself when it has at most two).
C5_BalanceEqualsRoundedAmount ==
    (last.op = "verify" /\ last.reply = "success"
        /\ last.d.status = "PENDING_DEPOSIT")
       => /\ Now.status = "FUNDED"
          /\ Now.amount = last.d.amount
          /\ Now.escrow_balance % 10 = 0
          /\ LET diff == Now.escrow_balance - Now.amount IN
                /\ diff <= 5 /\ diff >= -5
                /\ Now.amount % 10 = 0 => diff = 0

C5_Witness ==
    /\ last.op = "verify" /\ last.reply = "success"
    /\ last.d.status = "PENDING_DEPOSIT" /\ Now.status = "FUNDED"
    /\ Now.amount % 10 # 0
    /\ Now.escrow_balance # Now.amount

\* C6: every deal whose status is RELEASED, RESOLVED or CANCELED has
\* escrow_balance 0, also after release, resolve or cancel are repeated.
C6_TerminalBalanceZero ==
    \A id \in DOMAIN deals :
        deals[id].status \in Terminal => deals[id].escrow_balance = 0

C6_Witness ==
    /\ last.op = "cancel" /\ last.reply = "ok"
    /\ last.d.status = "RELEASED"
    /\ Now.status = "CANCELED" /\ Now.escrow_balance = 0

\* C7: a deal's escrow_balance is non-zero only if its status is FUNDED,
\* DELIVERED or DISPUTED; in NEW and PENDING_DEPOSIT it is 0, in every
\* reachable state including the one right after initialisation.
C7_BalanceOnlyWhenFunded ==
    \A id \in DOMAIN deals :
        deals[id].escrow_balance # 0 => deals[id].status \in FundedStates

\* C8: resolve and cancel sent by a user who is not an administrator are
\* answered "Admin only." and leave the deal's status and escrow_balance as
\* they were, for every status of the deal.
C8_NonAdminRejected ==
    (last.op \in {"resolve", "cancel"} /\ last.uid \notin ADMIN_IDS)
       => /\ last.reply = "admin_only"
          /\ Now.status = last.d.status
          /\ last.d # None => Now.escrow_balance = last.d.escrow_balance

C8_Witness ==
    /\ last.op = "cancel" /\ last.uid \notin ADMIN_IDS
    /\ last.reply = "admin_only"
    /\ last.d.status = "NEW" /\ Now.status = "NEW"

\* C9: release on an existing deal succeeds iff its status is DELIVERED,
\* leaving RELEASED with balance 0; from every other status it is rejected
\* and status and balance are what they were.
C9_ReleaseIffDelivered ==
    (last.op = "release" /\ last.d # None)
       => IF last.d.status = "DELIVERED"
          THEN /\ last.reply = "ok"
               /\ Now.status = "RELEASED"
               /\ Now.escrow_balance = 0
          ELSE /\ last.reply = "illegal"
               /\ Now.status = last.d.status
               /\ Now.escrow_balance = last.d.escrow_balance

C9_Witness ==
    /\ last.op = "release" /\ last.reply = "ok"
    /\ last.d.status = "DELIVERED" /\ last.d.escrow_balance > 0
    /\ Now.status = "RELEASED" /\ Now.escrow_balance = 0

\* C10: open_dispute on an existing deal succeeds iff its status is FUNDED
\* or DELIVERED, leaving DISPUTED with the balance it had; from every other
\* status it is rejected and the status is what it was.
C10_DisputeIffFundedOrDelivered ==
    (last.op = "dispute" /\ last.d # None)
       => IF last.d.status \in {"FUNDED", "DELIVERED"}
          THEN /\ last.reply = "ok"
               /\ Now.status = "DISPUTED"
               /\ Now.escrow_balance = last.d.escrow_balance
          ELSE /\ last.reply = "illegal"
               /\ Now.status = last.d.status
               /\ Now.escrow_balance = last.d.escrow_balance

C10_Witness ==
    /\ last.op = "dispute" /\ last.reply = "ok"
    /\ last.d.status = "DELIVERED" /\ last.d.escrow_balance > 0
    /\ Now.status = "DISPUTED"
    /\ Now.escrow_balance = last.d.escrow_balance

\* C11: mark_delivered on an existing deal succeeds iff its status is FUNDED
\* or DISPUTED, leaving DELIVERED with the balance it had; from every other
\* status, DELIVERED included, it is rejected and the row is what it was.
C11_DeliveredIffFundedOrDisputed ==
    (last.op = "delivered" /\ last.d # None)
       => IF last.d.status \in {"FUNDED", "DISPUTED"}
          THEN /\ last.reply = "ok"
               /\ Now = [last.d EXCEPT !.status = "DELIVERED"]
          ELSE /\ last.reply = "illegal"
               /\ Now = last.d

\* mark_delivered moved a DISPUTED deal to DELIVERED and kept its balance
C11_Witness ==
    /\ last.op = "delivered" /\ last.reply = "ok"
    /\ last.d.status = "DISPUTED" /\ last.d.escrow_balance > 0
    /\ Now.status = "DELIVERED"
    /\ Now.escrow_balance = last.d.escrow_balance

\* mark_delivered on a DELIVERED deal was rejected
C11_WitnessRejected ==
    /\ last.op = "delivered" /\ last.reply = "illegal"
    /\ last.d.status = "DELIVERED" /\ Now = last.d

\* C12: resolve sent by an administrator for an existing deal with winner
\* buyer or seller succeeds iff the status is DISPUTED, FUNDED or DELIVERED,
\* leaving RESOLVED with balance 0 and the rest of the row as it was, the
\* same for both winners; from every other status it is rejected as illegal
\* (whatever the winner) and the row is what it was.
C12_ResolveLegalSources ==
    (last.op = "resolve" /\ last.uid \in ADMIN_IDS /\ last.d # None)
       => IF last.d.status \in {"DISPUTED", "FUNDED", "DELIVERED"}
          THEN /\ last.reply \in {"ok", "bad_winner"}
               /\ last.reply = "ok" <=> last.arg \in {"buyer", "seller"}
               /\ last.reply = "ok" =>
                     Now = [last.d EXCEPT !.status = "RESOLVED",
                                          !.escrow_balance = 0]
          ELSE /\ last.reply = "illegal"
               /\ Now = last.d

\* the administrator resolved a FUNDED deal in favour of the seller
C12_Witness ==
    /\ last.op = "resolve" /\ last.uid \in ADMIN_IDS /\ last.reply = "ok"
    /\ last.arg = "seller"
    /\ last.d.status = "FUNDED" /\ last.d.escrow_balance > 0
    /\ Now.status = "RESOLVED" /\ Now.escrow_balance = 0

\* ... and, from the same status, in favour of the buyer
C12_WitnessBuyer ==
    /\ last.op = "resolve" /\ last.uid \in ADMIN_IDS /\ last.reply = "ok"
    /\ last.arg = "buyer"
    /\ last.d.status = "FUNDED" /\ last.d.escrow_balance > 0
    /\ Now.status = "RESOLVED" /\ Now.escrow_balance = 0

\* the administrator's resolve on a NEW deal was rejected
C12_WitnessRejected ==
    /\ last.op = "resolve" /\ last.uid \in ADMIN_IDS
    /\ last.reply = "illegal" /\ last.d.status = "NEW" /\ Now = last.d

\* C13: when a verification task fires for a deal in PENDING_DEPOSIT and no
\* deposit is found, the deal is still in PENDING_DEPOSIT with escrow_balance
\* 0 and the rest of its row as it was, and what goes out is the
\* "verification failed" notification.
C13_FailedVerificationKeepsPending ==
    (last.op = "verify" /\ last.d.status = "PENDING_DEPOSIT"
        /\ last.reply # "success")
       => /\ last.reply = "failed"
          /\ Now = last.d
          /\ Now.status = "PENDING_DEPOSIT"
          /\ Now.escrow_balance = 0

C13_Witness ==
    /\ last.op = "verify" /\ last.reply = "failed"
    /\ last.d.status = "PENDING_DEPOSIT"
    /\ Now.status = "PENDING_DEPOSIT" /\ Now.escrow_balance = 0
    /\ Now.amount > 0

\* C14: once both seed phrase halves of a deal are set, no step on that deal
\* (simulate_deposit_logic included) changes either half.
C14_HalvesStable ==
    [][\A id \in DOMAIN deals \cap DOMAIN deals' :
          (deals[id].seed_phrase # <<>> /\ deals[id].seller_seed_phrase # <<>>)
             => /\ deals'[id].seed_phrase = deals[id].seed_phrase
                /\ deals'[id].seller_seed_phrase =
                      deals[id].seller_seed_phrase]_vars

\* C15: ensure_seed_phrases_exist called twice in a row on a deal returns
\* the same two halves both times and leaves the same table, whatever
\* random.sample would draw; on a deal whose two halves are stored it
\* returns the stored halves and leaves the table as it was.
C15_EnsureIdempotent ==
    \A id \in DOMAIN deals : \A k1 \in Draws, k2 \in Draws :
        LET stored == safe_get_seed_phrases(deals, id)
            r1 == ensure_seed_phrases_exist(deals, id, k1)
            r2 == ensure_seed_phrases_exist(r1.ds, id, k2)
        IN /\ r2.halves = r1.halves
           /\ r2.ds = r1.ds
           /\ safe_get_seed_phrases(r1.ds, id) = r1.halves
           /\ (stored[1] # NoOut /\ stored[2] # NoOut)
                 => r1.halves = stored /\ r1.ds = deals

\* /seed ran ensure_seed_phrases_exist on a deal created by /newdeal and
\* showed the stored half; the stored halves are what they were
C15_Witness ==
    /\ last.op = "seed" /\ last.reply = "ok"
    /\ last.d.status = "NEW" /\ last.d.buyer_username = username(ADMIN_ID)
    /\ last.out # NoOut /\ last.out = last.d.seed_phrase
    /\ Now = last.d

\* the words of a sequence
Range(q) == {q[i] : i \in DOMAIN q}

\* C16: the two halves stored for a newly created deal have HalfLen words
\* each; put together in order they are an outcome of generate_seed_phrase:
\* PhraseLen dictionary words, no two positions holding the same word; and
\* no word is in both halves.
C16_PhraseSplit ==
    (last.op = "newdeal" /\ last.reply = "ok")
       => LET h1 == Now.seed_phrase
              h2 == Now.seller_seed_phrase
              p  == h1 \o h2
          IN /\ Len(h1) = HalfLen /\ Len(h2) = HalfLen
             /\ Len(p) = PhraseLen
             /\ Range(p) \subseteq Range(words)
             /\ \A i \in 1..Len(p), j \in 1..Len(p) :
                   i # j => p[i] # p[j]
             /\ Range(h1) \cap Range(h2) = {}
             /\ \E k \in AllDraws :
                   /\ p = generate_seed_phrase(k)
                   /\ <<h1, h2>> = split_seed_phrase(p)

\* a deal was issued a phrase that starts with the last word of the
\* dictionary and whose halves are not in dictionary order
C16_Witness ==
    /\ last.op = "newdeal" /\ last.reply = "ok"
    /\ Now.seed_phrase[1] = NumWords
    /\ Now.seller_seed_phrase[HalfLen] < Now.seller_seed_phrase[1]
    /\ Len(Now.seed_phrase \o Now.seller_seed_phrase) = PhraseLen

\* C17: /seed on an existing deal answers "You are not involved in this
\* deal." and shows no half to a sender who is neither its buyer nor its
\* seller, by id or by @handle; a sender who is only the buyer is shown the
\* buyer's half, one who is only the seller the seller's half, and one who
\* is both is shown one of the two.
C17_SeedHalfOfOwnSide ==
    (last.op = "seed" /\ last.d # None)
       => LET b  == is_buyer(last.d, last.uid)
              sl == is_seller(last.d, last.uid)
          IN /\ ~(b \/ sl) => /\ last.reply = "not_involved"
                               /\ last.out = NoOut
             /\ (b \/ sl) => /\ last.reply = "ok"
                              /\ last.out \in {Now.seed_phrase,
                                               Now.seller_seed_phrase}
                              /\ last.out # NoOut
             /\ (b /\ ~sl) => last.out = Now.seed_phrase
             /\ (sl /\ ~b) => last.out = Now.seller_seed_phrase
             /\ Now.seed_phrase # Now.seller_seed_phrase

\* the seller named by @handle at /newdeal, whose id the row does not hold,
\* was shown the seller's half
C17_Witness ==
    /\ last.op = "seed" /\ last.reply = "ok"
    /\ last.uid = THIRD_ID /\ last.d.seller_id = NoId
    /\ last.d.seller_username = "@carol"
    /\ ~is_buyer(last.d, last.uid)
    /\ last.out = Now.seller_seed_phrase

\* the buyer by id was shown the buyer's half
C17_WitnessBuyer ==
    /\ last.op = "seed" /\ last.reply = "ok"
    /\ last.d.buyer_id = last.uid /\ ~is_seller(last.d, last.uid)
    /\ last.out = Now.seed_phrase

\* a sender who is no party of the deal was turned away
C17_WitnessStranger ==
    /\ last.op = "seed" /\ last.reply = "not_involved"
    /\ last.uid = OTHER_ID /\ last.d.buyer_id # OTHER_ID
    /\ last.d.seller_id # OTHER_ID /\ last.out = NoOut

\* a sender who is buyer and seller of the deal was shown the buyer's half
C17_WitnessBoth ==
    /\ last.op = "seed" /\ last.reply = "ok"
    /\ last.d.buyer_id = last.uid /\ last.d.seller_id = last.uid
    /\ last.out = Now.seed_phrase

\* C18: when /newdeal has created a deal from a positive amount, whoever the
\* sender, the buyer and the seller are, its row has status NEW and
\* escrow_balance 0, holds the amount and the parties given, and holds both
\* seed phrase halves, HalfLen words each.
C18_CreatedDeal ==
    (last.op = "newdeal" /\ last.reply = "ok")
       => /\ last.id \in DOMAIN deals /\ last.id = seq
          /\ Now.status = "NEW"
          /\ Now.escrow_balance = 0
          /\ Now.amount > 0
          /\ Len(Now.seed_phrase) = HalfLen
          /\ Len(Now.seller_seed_phrase) = HalfLen

\* a deal of 0.004 between a buyer named by @handle and the sender as seller
C18_Witness ==
    /\ last.op = "newdeal" /\ last.reply = "ok"
    /\ Now.status = "NEW" /\ Now.escrow_balance = 0 /\ Now.amount = 4
    /\ Now.buyer_id = NoId /\ Now.seller_id = OTHER_ID
    /\ Now.seed_phrase # NoOut /\ Now.seller_seed_phrase # NoOut

\* the handlers that take a deal id
IdOps == {"deposit", "delivered", "release", "dispute", "resolve", "cancel",
          "seed"}

\* C19 as stated: every handler that takes a deal id, given an id that has
\* no row, answers "Deal not found." and leaves table, id counter and tasks
\* as they were.
C19_NotFound ==
    [][(last'.op \in IdOps /\ last'.d = None)
          => /\ last'.reply = "not_found"
             /\ UNCHANGED <<deals, seq, tasks>>]_vars

\* C19 as amended: every handler that takes a deal id, given an id that has
\* no row, leaves table, id counter and tasks as they were; it answers
\* "Deal not found.", except that /resolve and /cancel from a sender who is
\* not an administrator answer "Admin only." before the id is looked up.
C19_NotFoundOrAdminOnly ==
    [][(last'.op \in IdOps /\ last'.d = None)
          => /\ IF last'.op \in {"resolve", "cancel"}
                      /\ last'.uid \notin ADMIN_IDS
                THEN last'.reply = "admin_only"
                ELSE last'.reply = "not_found"
             /\ UNCHANGED <<deals, seq, tasks>>]_vars

\* /seed with an id that has no row was answered "Deal not found." while
\* the table holds a deal created by /newdeal
C19_Witness ==
    /\ last.op = "seed" /\ last.id = NoSuchId /\ last.d = None
    /\ last.reply = "not_found"
    /\ \E id \in DOMAIN deals : deals[id].amount \in AmountInputs

\* /cancel from a sender who is not an administrator, with an id that has
\* no row, was answered "Admin only."
C19_WitnessAdminOnly ==
    /\ last.op = "cancel" /\ last.id = NoSuchId /\ last.d = None
    /\ last.uid \notin ADMIN_IDS /\ last.reply = "admin_only"

\* C20: a row is never deleted: an id that has a row has a row after every
\* step, a restart of the process included.
C20_NeverDeleted ==
    [][DOMAIN deals \subseteq DOMAIN deals']_vars

\* C21: no id is handed out twice: the id counter never goes down, every row
\* that appears has an id above every id assigned before, the id /newdeal
\* answers with is such an id, and every row's id is at most the counter.
\* (One row per id holds by the PRIMARY KEY: the table is a function of id.)
C21_IdsNeverReused ==
    [][/\ seq' >= seq
       /\ \A id \in DOMAIN deals' \ DOMAIN deals : id > seq /\ id <= seq'
       /\ \A id \in DOMAIN deals' : id >= 1 /\ id <= seq'
       /\ (last'.op = "newdeal" /\ last'.reply = "ok")
             => /\ last'.id > seq
                /\ last'.id \in DOMAIN deals' \ DOMAIN deals]_vars

\* the process was restarted: the sample rows were deleted and inserted
\* again, and got ids that had not been used
C21_Witness ==
    /\ last.op = "init_db" /\ seq > NumSample
    /\ \A id \in DOMAIN deals : id > seq - NumSample
    /\ DOMAIN deals # {}

\* the sleeping tasks of deal id
TasksOf(id) == {t \in BagToSet(tasks) : t.deal_id = id}
NumTasksOf(id) ==
    IF TasksOf(id) = {} THEN 0
    ELSE CopiesIn(CHOOSE t \in TasksOf(id) : TRUE, tasks)

\* C22: right after a successful simulate_deposit_logic the deal is in
\* PENDING_DEPOSIT and exactly one task for it is asleep, on the deal's
\* amount; while the process runs, a sleeping task is eventually run; and
\* once the task of a deal has run, there is never a task for that deal
\* again.
C22_ScheduledOnceAndRuns ==
    /\ []((last.op = "deposit" /\ last.reply = "ok")
             => /\ Now.status = "PENDING_DEPOSIT"
                /\ TasksOf(last.id) =
                      {[deal_id |-> last.id, expected_amount |-> Now.amount]}
                /\ NumTasksOf(last.id) = 1)
    /\ [](\A id \in Ids : Cardinality(TasksOf(id)) <= 1
                             /\ NumTasksOf(id) <= 1)
    /\ \A id \in Ids :
          (TasksOf(id) # {}) ~> (last.op = "verify" /\ last.id = id)
    /\ \A id \in Ids :
          []((last.op = "verify" /\ last.id = id) => [](TasksOf(id) = {}))

\* the task of a deal created by /newdeal has run after another handler
\* had answered while it was asleep
C22_Witness ==
    /\ last.op = "verify" /\ last.id > NumSample
    /\ last.d.status = "PENDING_DEPOSIT"
    /\ TasksOf(last.id) = {}

\* C23: the task of a deal, when it runs, leaves every other row and every
\* other deal's task as they were; and while a task of deal a is asleep,
\* the handlers answer for every other deal b as its status says: the
\* deposit on a NEW deal goes through, and so do mark_delivered, release,
\* open_dispute and the administrator's cancel from their source statuses.
C23_VerificationIndependent ==
    /\ [][last'.op = "verify"
             => \A id \in DOMAIN deals \ {last'.id} :
                   /\ id \in DOMAIN deals'
                   /\ deals'[id] = deals[id]
                   /\ NumTasksOf(id)' = NumTasksOf(id)]_vars
    /\ [](\A a \in DOMAIN deals, b \in DOMAIN deals :
             (a # b /\ TasksOf(a) # {})
                => /\ deals[b].status = "NEW"
                      => ENABLED (simulate_deposit_logic(b, 1)
                                     /\ last'.reply = "ok")
                   /\ deals[b].status \in {"FUNDED", "DISPUTED"}
                      => ENABLED (mark_delivered(b) /\ last'.reply = "ok")
                   /\ deals[b].status = "DELIVERED"
                      => ENABLED (release_to_seller(b) /\ last'.reply = "ok")
                   /\ deals[b].status \in {"FUNDED", "DELIVERED"}
                      => ENABLED (open_dispute(b) /\ last'.reply = "ok")
                   /\ ENABLED (cancel_cmd(ADMIN_ID, b)
                                  /\ last'.reply = "ok"))

\* two tasks are asleep at once: the deposit on one deal went through while
\* the task of another was waiting
C23_Witness ==
    /\ last.op = "deposit" /\ last.reply = "ok"
    /\ \E a \in DOMAIN deals :
          a # last.id /\ TasksOf(a) # {} /\ TasksOf(last.id) # {}
          /\ deals[a].status = "PENDING_DEPOSIT"

\* the task of one deal has run and found the deposit while the task of
\* another deal, still in PENDING_DEPOSIT, sleeps on
C23_WitnessFired ==
    /\ last.op = "verify" /\ last.reply = "success"
    /\ \E b \in DOMAIN deals :
          b # last.id /\ TasksOf(b) # {}
          /\ deals[b].status = "PENDING_DEPOSIT"
          /\ deals[b].escrow_balance = 0

\* C24: the deal created with amount 100.00 is NEW with balance 0; the
\* deposit on it gives PENDING_DEPOSIT with the balance still 0; the
\* verification that finds the deposit gives FUNDED with balance 100.00;
\* mark_delivered on it gives DELIVERED with balance 100.00; release of it
\* gives RELEASED with balance 0.
C24_HappyPath ==
    /\ (last.op = "newdeal" /\ last.reply = "ok" /\ Now.amount = 100000)
          => Now.status = "NEW" /\ Now.escrow_balance = 0
    /\ (last.op = "deposit" /\ last.d # None /\ last.d.status = "NEW"
            /\ last.d.amount = 100000 /\ last.d.escrow_balance = 0)
          => /\ last.reply = "ok"
             /\ Now.status = "PENDING_DEPOSIT" /\ Now.escrow_balance = 0
             /\ TasksOf(last.id) # {}
    /\ (last.op = "verify" /\ last.reply = "success"
            /\ last.d.status = "PENDING_DEPOSIT"
            /\ last.d.amount = 100000)
          => Now.status = "FUNDED" /\ Now.escrow_balance = 100000
    /\ (last.op = "delivered" /\ last.d # None /\ last.d.status = "FUNDED"
            /\ last.d.escrow_balance = 100000)
          => /\ last.reply = "ok"
             /\ Now.status = "DELIVERED"
             /\ Now.escrow_balance = 100000
    /\ (last.op = "release" /\ last.d # None /\ last.d.status = "DELIVERED"
            /\ last.d.escrow_balance = 100000)
          => /\ last.reply = "ok"
             /\ Now.status = "RELEASED" /\ Now.escrow_balance = 0

\* the end of the path: the created deal of 100.00, delivered with its
\* balance of 100.00, has just been released
C24_Witness ==
    /\ last.op = "release" /\ last.reply = "ok" /\ last.id > NumSample
    /\ last.d.status = "DELIVERED" /\ last.d.amount = 100000
    /\ last.d.escrow_balance = 100000
    /\ Now.status = "RELEASED" /\ Now.escrow_balance = 0

\* C25: open_dispute goes through from FUNDED and from DELIVERED,
\* mark_delivered from FUNDED and from DISPUTED, each leaving the balance as
\* it was, release goes through from DELIVERED, and a deal in DELIVERED or
\* DISPUTED holds its funded amount.
C25_Alternation ==
    /\ (last.op = "dispute" /\ last.d # None
            /\ last.d.status \in {"FUNDED", "DELIVERED"})
          => /\ last.reply = "ok" /\ Now.status = "DISPUTED"
             /\ Now.escrow_balance = last.d.escrow_balance
    /\ (last.op = "delivered" /\ last.d # None
            /\ last.d.status \in {"FUNDED", "DISPUTED"})
          => /\ last.reply = "ok" /\ Now.status = "DELIVERED"
             /\ Now.escrow_balance = last.d.escrow_balance
    /\ (last.op = "release" /\ last.d # None /\ last.d.status = "DELIVERED")
          => last.reply = "ok" /\ Now.status = "RELEASED"
    /\ \A id \in DOMAIN deals :
          deals[id].status \in {"DELIVERED", "DISPUTED"}
             => deals[id].escrow_balance = Round2(deals[id].amount)

\* the created deal of 100.00, disputed, is delivered with its balance kept
C25_Witness ==
    /\ last.op = "delivered" /\ last.reply = "ok" /\ last.id > NumSample
    /\ last.d.status = "DISPUTED" /\ last.d.amount = 100000
    /\ Now.status = "DELIVERED" /\ Now.escrow_balance = 100000

\* the same deal, delivered, is disputed again with its balance kept
C25_WitnessBack ==
    /\ last.op = "dispute" /\ last.reply = "ok" /\ last.id > NumSample
    /\ last.d.status = "DELIVERED" /\ last.d.amount = 100000
    /\ Now.status = "DISPUTED" /\ Now.escrow_balance = 100000

\* C26: a deal in PENDING_DEPOSIT whose task has run without finding the
\* deposit has no task left; from then on it is never FUNDED: every step
\* leaves it in PENDING_DEPOSIT with no task, except the administrator's
\* cancel, which takes it to CANCELED, where it stays with no task.
Stuck(id) ==
    /\ id \in DOMAIN deals
    /\ deals[id].status \in {"PENDING_DEPOSIT", "CANCELED"}
    /\ TasksOf(id) = {}

C26_NoRetry ==
    [][\A id \in DOMAIN deals \cap DOMAIN deals' :
          Stuck(id)
             => /\ Stuck(id)'
                /\ deals'[id].escrow_balance = 0 \/ deals[id].escrow_balance # 0
                /\ deals'[id].status # deals[id].status
                      => /\ deals[id].status = "PENDING_DEPOSIT"
                         /\ deals'[id].status = "CANCELED"
                         /\ last'.op = "cancel" /\ last'.id = id
                         /\ last'.uid \in ADMIN_IDS]_vars

\* a new deposit on the created deal whose verification failed is turned
\* down: the deal is in PENDING_DEPOSIT with balance 0 and no task
C26_Witness ==
    /\ last.op = "deposit" /\ last.reply = "illegal" /\ last.id > NumSample
    /\ last.d.status = "PENDING_DEPOSIT" /\ last.d.escrow_balance = 0
    /\ Stuck(last.id) /\ Now.status = "PENDING_DEPOSIT"

\* the administrator cancels the deal whose verification failed
C26_WitnessCancel ==
    /\ last.op = "cancel" /\ last.reply = "ok" /\ last.id > NumSample
    /\ last.d.status = "PENDING_DEPOSIT" /\ TasksOf(last.id) = {}
    /\ Now.status = "CANCELED"

\* C27: a /newdeal whose amount is not positive, whose currency code,
\* trimmed and in upper case, is shorter than 3 or longer than 6 characters,
\* or whose trimmed description is shorter than 5 characters is answered
\* with the validation message, leaves the table, the counter and the tasks
\* as they were and returns the state of the field it turned down; and
\* after such an answer the conversation with good values creates the deal.
Malformed(a, c, t) ==
    \/ a <= 0
    \/ Len(upper(strip(c))) < 3 \/ Len(upper(strip(c))) > 6
    \/ Len(strip(t)) < 5

C27_MalformedRejected ==
    /\ [][\A r \in NewDealRefs, a \in InputAmounts,
             c \in CurrencyTexts, t \in DescriptionTexts :
             (Malformed(a, c, t) /\ newdeal(r[1], r[2], r[3], a, c, t, 1))
                => /\ UNCHANGED <<deals, seq, tasks>>
                   /\ last'.op = "newdeal" /\ last'.reply = "invalid"
                   /\ last'.id = NoSuchId
                   /\ last'.arg = IF a <= 0 THEN AMOUNT
                                  ELSE IF Len(upper(strip(c))) \notin 3..6
                                  THEN CURRENCY ELSE DESCRIPTION]_vars
    /\ []((last.op = "newdeal" /\ last.reply = "invalid" /\ seq < MaxId)
             => \E r \in NewDealRefs :
                   ENABLED (/\ newdeal(r[1], r[2], r[3], 100000,
                                       <<"u", "s", "d">>,
                                       <<"l", "a", "p", "t", "o", "p">>, 1)
                            /\ last'.reply = "ok"
                            /\ last'.id \in DOMAIN deals'))

\* a currency turned down: the conversation waits in CURRENCY, no deal made
C27_Witness ==
    /\ last.op = "newdeal" /\ last.reply = "invalid" /\ last.arg = CURRENCY
    /\ DOMAIN deals = 1..NumSample /\ seq = NumSample

\* a description turned down after a deal was created earlier
C27_WitnessDescription ==
    /\ last.op = "newdeal" /\ last.reply = "invalid" /\ last.arg = DESCRIPTION
    /\ seq > NumSample

\* C28: every operation that writes a deal has found it, when it writes, in
\* a status from which its transition is legal: the deposit in NEW, the
\* verification that finds the deposit in PENDING_DEPOSIT, mark_delivered
\* in FUNDED or DISPUTED, release in DELIVERED, open_dispute in FUNDED or
\* DELIVERED, resolve in DISPUTED, FUNDED or DELIVERED, cancel in a status
\* that is not terminal;
\* so the outcome of two operations on one deal is that of running them one
\* after the other, each one tested against the status the other left.
LegalSources(op) ==
    CASE op = "deposit"   -> {"NEW"}
      [] op = "verify"    -> {"PENDING_DEPOSIT"}
      [] op = "delivered" -> {"FUNDED", "DISPUTED"}
      [] op = "release"   -> {"DELIVERED"}
      [] op = "dispute"   -> {"FUNDED", "DELIVERED"}
      [] op = "resolve"   -> {"DISPUTED", "FUNDED", "DELIVERED"}
      [] op = "cancel"    -> NonTerminal
      [] OTHER            -> DealStatus

C28_WritesValidated ==
    (/\ last.op \in {"deposit", "verify", "delivered", "release",
                      "dispute", "resolve", "cancel"}
     /\ last.d # None
     /\ Now # last.d)
       => last.d.status \in LegalSources(last.op)

\* C29 as stated: a deal in RELEASED, CANCELED or RESOLVED has balance 0,
\* and a deal in FUNDED, DELIVERED or DISPUTED never has balance 0.
C29_NeverFundedWithZero ==
    \A id \in DOMAIN deals :
       /\ deals[id].status \in Terminal => deals[id].escrow_balance = 0
       /\ deals[id].status \in FundedStates => deals[id].escrow_balance # 0

\* C29: the status and the balance of a deal always belong together: a deal
\* in RELEASED, CANCELED or RESOLVED has balance 0, and a deal in FUNDED,
\* DELIVERED or DISPUTED has its amount rounded to two decimal places as
\* balance, which is 0 only for an amount below 0.005.
C29_StatusAndBalanceTogether ==
    \A id \in DOMAIN deals :
       /\ deals[id].status \in Terminal => deals[id].escrow_balance = 0
       /\ deals[id].status \in FundedStates
             => /\ deals[id].escrow_balance = Round2(deals[id].amount)
                /\ deals[id].escrow_balance = 0 <=> deals[id].amount < 5

\* the verification of the created deal of 0.004 found the deposit: the
\* deal is FUNDED with balance 0
C29_Witness ==
    /\ last.op = "verify" /\ last.reply = "success" /\ last.id > NumSample
    /\ last.d.status = "PENDING_DEPOSIT" /\ last.d.amount = 4
    /\ Now.status = "FUNDED" /\ Now.escrow_balance = 0

\* the administrator resolved the created deal of 100.00 in dispute: the
\* status and the balance changed in the one step
C29_WitnessResolved ==
    /\ last.op = "resolve" /\ last.reply = "ok" /\ last.id > NumSample
    /\ last.d.status = "DISPUTED" /\ last.d.escrow_balance = 100000
    /\ Now.status = "RESOLVED" /\ Now.escrow_balance = 0

\* C30: the deposit that goes through leaves the deal with both halves of
\* one phrase stored, and the seller half it hands to ask_seller_btc_address
\* is the stored one; the halves of a deal that has left NEW are never
\* written again, and /seed answers the seller of a deal with the stored
\* seller half.
C30_SellerHalfDisclosedIsStored ==
    /\ []((last.op = "deposit" /\ last.reply = "ok")
             => /\ last.out = Now.seller_seed_phrase
                /\ Len(Now.seed_phrase) = HalfLen
                /\ Len(Now.seller_seed_phrase) = HalfLen
                /\ Range(Now.seed_phrase) \cap Range(Now.seller_seed_phrase)
                      = {})
    /\ [][\A id \in DOMAIN deals \cap DOMAIN deals' :
             deals[id].status # "NEW"
                => /\ deals'[id].seed_phrase = deals[id].seed_phrase
                   /\ deals'[id].seller_seed_phrase
                         = deals[id].seller_seed_phrase]_vars
    /\ []((/\ last.op = "seed" /\ last.reply = "ok"
            /\ is_seller(last.d, last.uid) /\ ~is_buyer(last.d, last.uid))
             => last.out = Now.seller_seed_phrase)

\* the seller of the created deal, whose deposit replaced the halves issued
\* at creation, asks /seed while the deal waits for its verification and is
\* answered with the stored seller half
C30_Witness ==
    /\ last.op = "seed" /\ last.reply = "ok" /\ last.id > NumSample
    /\ is_seller(last.d, last.uid) /\ ~is_buyer(last.d, last.uid)
    /\ Now.status = "PENDING_DEPOSIT" /\ TasksOf(last.id) # {}
    /\ last.out = Now.seller_seed_phrase
    /\ last.out = split_seed_phrase(generate_seed_phrase(2))[2]
    /\ last.out # split_seed_phrase(generate_seed_phrase(1))[2]

\* the deposit on the created deal has just handed out the seller half
C30_WitnessDeposit ==
    /\ last.op = "deposit" /\ last.reply = "ok" /\ last.id > NumSample
    /\ last.out = Now.seller_seed_phrase /\ last.out # NoOut

\* C31: every step leaves the amount, the currency, the description, the
\* two parties and created_at of every deal as they were; the status or the
\* balance of a deal changes only in a transition on that deal, and its two
\* halves change only where a phrase is issued for it: in the deposit, or
\* in /seed when a half is missing.
Immutable(d) ==
    [amount |-> d.amount, currency |-> d.currency,
     description |-> d.description,
     buyer_id |-> d.buyer_id, buyer_username |-> d.buyer_username,
     seller_id |-> d.seller_id, seller_username |-> d.seller_username,
     created_at |-> d.created_at]

TransitionOps ==
    {"deposit", "verify", "delivered", "release", "dispute", "resolve",
     "cancel"}

C31_OnlyStatusBalanceAndHalves ==
    [][\A id \in DOMAIN deals :
          /\ id \in DOMAIN deals'
          /\ Immutable(deals'[id]) = Immutable(deals[id])
          /\ (\/ deals'[id].status # deals[id].status
              \/ deals'[id].escrow_balance # deals[id].escrow_balance)
                => last'.id = id /\ last'.op \in TransitionOps
          /\ (\/ deals'[id].seed_phrase # deals[id].seed_phrase
              \/ deals'[id].seller_seed_phrase # deals[id].seller_seed_phrase)
                => last'.id = id /\ last'.op \in {"deposit", "seed"}
          /\ last'.op \in TransitionOps \ {"deposit"}
                => /\ deals'[id].seed_phrase = deals[id].seed_phrase
                   /\ deals'[id].seller_seed_phrase
                         = deals[id].seller_seed_phrase]_vars

\* the created deal of 100.00 USD has gone the whole way to RELEASED and
\* holds what it was created with
C31_Witness ==
    /\ last.op = "release" /\ last.reply = "ok" /\ last.id > NumSample
    /\ Now.status = "RELEASED"
    /\ Immutable(Now) = Immutable(last.d)
    /\ Now.amount = 100000 /\ Now.currency = USD
    /\ Now.description = Laptop
    /\ Now.buyer_id = ADMIN_ID /\ Now.seller_username = "@carol"
    /\ Now.created_at \in Times

C33_OneMatchingNotification ==
    /\ last.op = "verify"
          => /\ last.d # None /\ Now # None
             /\ Len(last.out) = 1
             /\ last.out[1] \in {"success", "failed"}
             /\ last.out[1] = "success"
                   <=> /\ last.reply = "success"
                       /\ Now.status = "FUNDED"
                       /\ Now.escrow_balance = Round2(last.d.amount)
             /\ last.out[1] = "failed"
                   <=> last.reply = "failed" /\ Now = last.d
    /\ notify_deposit_success(deals, NoSuchId) = <<>>
    /\ notify_deposit_failed(deals, NoSuchId) = <<>>
    /\ \A found \in BOOLEAN :
          verify_btc_deposit(deals, NoSuchId, 100000, found) = deals

\* the failure message for the created deal, which stays in PENDING_DEPOSIT
C33_Witness ==
    /\ last.op = "verify" /\ last.out = <<"failed">> /\ last.id > NumSample
    /\ Now.status = "PENDING_DEPOSIT" /\ Now.escrow_balance = 0

\* the success message for the created deal, which is FUNDED
C33_WitnessSuccess ==
    /\ last.op = "verify" /\ last.out = <<"success">> /\ last.id > NumSample
    /\ last.d.status = "PENDING_DEPOSIT" /\ Now.status = "FUNDED"

\* C34: a deal that has left NEW is never NEW again; a task is scheduled
\* for a deal only by the deposit that finds it in NEW and takes it out of
\* NEW, one task at a time; so a deal that is NEW has never had a task, a
\* deal never has two, and a second deposit on the deal is turned down.
C34_DepositOncePerDeal ==
    /\ [][\A id \in DOMAIN deals \cap DOMAIN deals' :
             /\ deals[id].status # "NEW" => deals'[id].status # "NEW"
             /\ NumTasksOf(id)' > NumTasksOf(id)
                   => /\ deals[id].status = "NEW"
                      /\ deals'[id].status = "PENDING_DEPOSIT"
                      /\ NumTasksOf(id)' = NumTasksOf(id) + 1
                      /\ last'.op = "deposit" /\ last'.id = id
                      /\ last'.reply = "ok"
             /\ (last'.op = "deposit" /\ last'.id = id
                    /\ deals[id].status # "NEW")
                   => /\ last'.reply = "illegal"
                      /\ UNCHANGED <<deals, tasks>>]_vars
    /\ [](\A id \in DOMAIN deals :
             /\ NumTasksOf(id) <= 1
             /\ deals[id].status = "NEW" => NumTasksOf(id) = 0)
    /\ [](\A t \in BagToSet(tasks) : t.deal_id \in DOMAIN deals)

\* a second deposit on the created deal whose task is still asleep is
\* turned down and the deal keeps its one task
C34_Witness ==
    /\ last.op = "deposit" /\ last.reply = "illegal" /\ last.id > NumSample
    /\ last.d.status = "PENDING_DEPOSIT" /\ Now = last.d
    /\ NumTasksOf(last.id) = 1

\* C35: a deal in NEW, PENDING_DEPOSIT or CANCELED leaves these three
\* statuses only in the run of its own task that found the deposit, which
\* makes it FUNDED; every handler leaves it among the three.  A created
\* deal starts in NEW, so it is past PENDING_DEPOSIT only after such a run.
Unfunded == {"NEW", "PENDING_DEPOSIT", "CANCELED"}

C35_FundedOnlyByVerification ==
    /\ [][\A id \in DOMAIN deals \cap DOMAIN deals' :
             (deals[id].status \in Unfunded /\ deals'[id].status \notin Unfunded)
                => /\ last'.op = "verify" /\ last'.id = id
                   /\ last'.reply = "success"
                   /\ deals'[id].status = "FUNDED"]_vars
    /\ []((last.op = "newdeal" /\ last.reply = "ok")
             => Now.status \in Unfunded)
    /\ [][\A id \in DOMAIN deals' \ DOMAIN deals :
             id > NumSample => deals'[id].status = "NEW"]_vars

\* the created deal of 100.00, cancelled by the administrator while its
\* task slept, is FUNDED by the task that found the deposit
C35_Witness ==
    /\ last.op = "verify" /\ last.reply = "success" /\ last.id > NumSample
    /\ last.d.status = "CANCELED" /\ last.d.amount = 100000
    /\ Now.status = "FUNDED"

\* the created deal is RESOLVED; it was FUNDED by its task before
C35_WitnessResolved ==
    /\ last.op = "resolve" /\ last.reply = "ok" /\ last.id > NumSample
    /\ last.d.status = "FUNDED" /\ Now.status = "RESOLVED"
    /\ TasksOf(last.id) = {}

\* C36: the balance of every deal is 0 or the deal's amount rounded to two
\* decimal places, and never negative; and every step that changes the
\* balance of a deal leaves one of these two values.
C36_BalanceZeroOrRoundedAmount ==
    \A id \in DOMAIN deals :
       /\ deals[id].escrow_balance >= 0
       /\ deals[id].escrow_balance \in {0, Round2(deals[id].amount)}
       /\ deals[id].amount > 0

\* the created deal of 1.234 is in dispute with 1.23 in escrow
C36_Witness ==
    /\ last.op = "dispute" /\ last.reply = "ok" /\ last.id > NumSample
    /\ Now.amount = 1234 /\ Now.escrow_balance = 1230
    /\ Now.status = "DISPUTED"

\* C37: a deposit that is turned down, the deal missing or not NEW, leaves
\* the table and the tasks as they were, the halves of the deal with them;
\* the halves are written and a task is added by a deposit only when it
\* found the deal in NEW, and then both happen.
C37_RejectedDepositWritesNothing ==
    [][\A id \in IdInputs :
          (last'.op = "deposit" /\ last'.id = id)
          => /\ last'.reply \in {"not_found", "illegal", "ok"}
             /\ last'.reply = "not_found" <=> id \notin DOMAIN deals
             /\ last'.reply = "illegal"
                   <=> (id \in DOMAIN deals /\ deals[id].status # "NEW")
             /\ last'.reply # "ok" => UNCHANGED <<deals, seq, tasks>>
             /\ last'.reply = "ok"
                   => /\ deals[id].status = "NEW"
                      /\ NumTasksOf(id)' = NumTasksOf(id) + 1
                      /\ deals'[id].seller_seed_phrase = last'.out
                      /\ Len(deals'[id].seed_phrase) = HalfLen]_vars

\* the deposit on the created deal that is already FUNDED is turned down:
\* the deal has the halves of its first deposit and no task
C37_Witness ==
    /\ last.op = "deposit" /\ last.reply = "illegal" /\ last.id > NumSample
    /\ last.d.status = "FUNDED" /\ Now = last.d
    /\ Now.seller_seed_phrase = split_seed_phrase(generate_seed_phrase(2))[2]
    /\ TasksOf(last.id) = {}

\* the deposit on a deal id that has no row
C37_WitnessNotFound ==
    /\ last.op = "deposit" /\ last.reply = "not_found"
    /\ last.id \notin DOMAIN deals /\ TasksOf(last.id) = {}

\* C38: a resolve that is turned down, for the sender, the missing deal,
\* the status or the winner, leaves the deal's row as it found it, status
\* and balance with it; a winner other than buyer or seller is always turned
\* down, and the resolve that writes has passed all four tests.
C38_RejectedResolveWritesNothing ==
    last.op = "resolve"
    => /\ last.reply \in {"admin_only", "not_found", "illegal",
                           "bad_winner", "ok"}
       /\ last.reply # "ok" => Now = last.d
       /\ last.reply = "bad_winner"
             => /\ last.arg \notin {"buyer", "seller"}
                /\ last.uid \in ADMIN_IDS
                /\ last.d.status \in {"DISPUTED", "FUNDED", "DELIVERED"}
       /\ last.reply = "ok"
             => /\ last.uid \in ADMIN_IDS
                /\ last.d # None
                /\ last.d.status \in {"DISPUTED", "FUNDED", "DELIVERED"}
                /\ last.arg \in {"buyer", "seller"}
                /\ Now.status = "RESOLVED" /\ Now.escrow_balance = 0

\* the administrator names a winner that is neither party on a disputed
\* deal holding money: the deal stays DISPUTED with its balance
C38_Witness ==
    /\ last.op = "resolve" /\ last.reply = "bad_winner"
    /\ last.uid \in ADMIN_IDS /\ last.arg = "nobody"
    /\ last.d.status = "DISPUTED" /\ last.d.escrow_balance > 0
    /\ Now.status = "DISPUTED"
    /\ Now.escrow_balance = last.d.escrow_balance

\* the administrator resolves a deal that was never funded
C38_WitnessIllegal ==
    /\ last.op = "resolve" /\ last.reply = "illegal"
    /\ last.uid \in ADMIN_IDS /\ last.d.status = "PENDING_DEPOSIT"
    /\ Now = last.d

====
